---- MODULE Spec2Model ----
(***************************************************************************)
(* DocuExtract: the in-memory ProcessingQueue, the per-document extraction *)
(* pipeline (extractDocument), the extract routes that drive them, and the *)
(* cost computation.                                                       *)
(*                                                                         *)
(* Every `await` of the source is a step boundary: what runs between two   *)
(* awaits is one atomic action (single-threaded cooperative scheduling).   *)
(***************************************************************************)
EXTENDS Integers, Sequences, FiniteSets, Bags, TLC

(***************************************************************************)
(* Bounds of the model                                                     *)
(***************************************************************************)
NumIds == 3
MaxAdds == 3
MaxConcurrency == 2
MaxMaxRetries == 2

Ids == 1..NumIds

\* the job id that is falsy in JavaScript (the empty string); add() takes it
\* like any other id
EmptyId == 0
JobIds == Ids \cup {EmptyId}

VARIABLES
  options,      \* ProcessingQueue.options: [concurrency, maxRetries, retryDelay]
  heap,         \* the QueueJob objects ever created by add(), in creation order
  jobs,         \* ProcessingQueue.jobs: id -> index of its object in heap (0: no entry)
  pending,      \* ProcessingQueue.pending: sequence of ids
  processing,   \* ProcessingQueue.processing: set of ids
  processor,    \* ProcessingQueue.processor: "none" (null), "fn" (a generic function), "extract" (the route's closure)
  isRunning,    \* ProcessingQueue.isRunning
  timers,       \* bag of job objects with a retry setTimeout outstanding
  runs,         \* bag of processor invocations / extractDocument calls in flight
  ptag,         \* history: for each entry of pending, the heap index of the add() that pushed it (0: retry re-queue)
  dispatched,   \* history: tags of the add() entries handed to processJob, in dispatch order
  invoked,      \* history: per job object, number of processor invocations started
  listeners,    \* ProcessingQueue.listeners: id -> index of its callback in callbacks (0: no entry)
  callbacks,    \* the callbacks ever passed to onComplete(): whether the function throws,
                \* and (history) how often it was invoked
  impl,         \* which of the two definitions of extractDocument in extractionService.ts is live
  documents,    \* the Document table, by id
  extractedData,\* the ExtractedData table: ids of the documents that have a row
  costMetrics,  \* the CostMetrics table, by document id
  state,        \* rateLimiter.ts: the module-level RateLimitState
  puts,         \* PUT /api/extract requests between two awaits of their loop
  now,          \* Date.now(), in ms since the module was loaded
  resets,       \* the setTimeout callbacks of handleRateLimitError() outstanding: [id, due]
  calls,        \* bag of withRateLimit() executions
  hist          \* history of the limiter: number of handleRateLimitError() calls, those
                \* since the last recordRequest()/reset(), and when the last one's delay ends

queueVars == <<heap, jobs, pending, processing, processor, timers, runs,
               ptag, dispatched, invoked, listeners, callbacks>>
limVars == <<now, resets, calls, hist>>
pipeVars == <<impl, documents, extractedData, costMetrics, state, puts, limVars>>
vars == <<options, isRunning, queueVars, pipeVars>>

(***************************************************************************)
(* ProcessingQueue (src/src/lib/queue/processingQueue.ts)                  *)
(***************************************************************************)

\* A processor invocation in flight: the job object it was given and the
\* position of the processor function.
\* obj: the job object (0: extractDocument called by a route, not by the queue)
\* doc, batch, force, skip: the arguments of the call
\* snap: whether the local `document` was read with status COMPLETED
\* model: the local `model`
\* class: the local `classification` after the classification block
\* cfail: history: whether the classification failed
\* text: history: the kind of text the provider answered with
\* data: the local `extractedData` (NoData before the provider answered)
\* review: the local `needsReview`, as a condition
\* paid: whether the local `result.usage` is set
\* created: history: the call's extractedData.create has succeeded
NoScores == [present |-> TRUE, hasNull |-> FALSE, values |-> {}]
NoData == [invalid |-> FALSE, scores |-> NoScores]
NewRun(obj, doc, batch, pc) ==
  [obj |-> obj, doc |-> doc, batch |-> batch, pc |-> pc,
   force |-> "none", skip |-> FALSE, snap |-> FALSE, model |-> "none",
   class |-> "none", cfail |-> FALSE, text |-> "none", data |-> NoData,
   review |-> FALSE, paid |-> FALSE, created |-> FALSE]

\* The queue's fields as one value, so that tick() can be computed as the
\* source computes it (a synchronous loop).
Q ==
  [heap |-> heap, jobs |-> jobs, pending |-> pending, ptag |-> ptag,
   processing |-> processing, processor |-> processor, timers |-> timers,
   runs |-> runs, dispatched |-> dispatched, invoked |-> invoked,
   listeners |-> listeners, callbacks |-> callbacks]

SetQ(q) ==
  /\ heap' = q.heap
  /\ jobs' = q.jobs
  /\ pending' = q.pending
  /\ ptag' = q.ptag
  /\ processing' = q.processing
  /\ processor' = q.processor
  /\ timers' = q.timers
  /\ runs' = q.runs
  /\ dispatched' = q.dispatched
  /\ invoked' = q.invoked
  /\ listeners' = q.listeners
  /\ callbacks' = q.callbacks

\* tick(): loop condition, second conjunct
HasSlotOffByOne(q) == Cardinality(q.processing) <= options.concurrency
HasSlot(q) == Cardinality(q.processing) < options.concurrency

\* processJob(): retry decision after retries++
ShouldRetryOffByOne(job) == job.retries <= job.maxRetries
ShouldRetry(job) == job.retries < job.maxRetries

\* tick(): which entry of pending is taken (pending.shift())
ShiftIndexLast(q) == Len(q.pending)
ShiftIndex(q) == 1

RemoveAt(s, i) == SubSeq(s, 1, i - 1) \o SubSeq(s, i + 1, Len(s))

\* processJob(), synchronous part: mark the job and call the processor
processJobStart(q, idx) ==
  LET job == q.heap[idx]
      pc0 == IF q.processor = "extract" THEN "find" ELSE "run"
  IN [q EXCEPT !.heap[idx].status = "processing",
               !.invoked[idx] = @ + 1,
               !.runs = @ (+) SetToBag({NewRun(idx, job.id, job.batch, pc0)})]

RECURSIVE tick(_)
tick(q) ==
  IF q.processor = "none" THEN q
  ELSE IF ~(Len(q.pending) > 0 /\ HasSlot(q)) THEN q
  ELSE LET i == ShiftIndex(q)
           jobId == q.pending[i]
           tag == q.ptag[i]
           q1 == [q EXCEPT !.pending = RemoveAt(@, i), !.ptag = RemoveAt(@, i)]
       IN IF jobId = EmptyId THEN q1
          ELSE IF q.jobs[jobId] = 0 THEN tick(q1)
          ELSE tick(processJobStart(
                 [q1 EXCEPT !.processing = @ \cup {jobId},
                            !.dispatched = IF tag # 0 THEN Append(@, tag) ELSE @],
                 q.jobs[jobId]))

\* processJob(), last statement: this.tick()
backfillNever(q) == q
backfill(q) == tick(q)

\* processJob(), after processing.delete: `listener(job)` and
\* `listeners.delete(job.id)` if the id has a listener, then this.tick().  A
\* callback that throws ends processJob at once: the entry stays and tick()
\* is not called.
notify(q, id) ==
  LET k == q.listeners[id]
  IN IF k = 0 THEN backfill(q)
     ELSE IF q.callbacks[k].throws
     THEN [q EXCEPT !.callbacks[k].fired = @ + 1]
     ELSE backfill([q EXCEPT !.callbacks[k].fired = @ + 1, !.listeners[id] = 0])

\* processJob(): the delay of the retry setTimeout, after retries++
retryDelayConstant(job) == options.retryDelay
retryDelay(job) == options.retryDelay * job.retries

\* processJob() after the processor settled: ok = resolved, ~ok = threw
processJobEnd(q, run, ok) ==
  LET idx == run.obj
      job == q.heap[idx]
      bumped == [job EXCEPT !.retries = @ + 1]
      j1 == IF ok THEN [job EXCEPT !.status = "completed"]
            ELSE IF ShouldRetry(bumped)
            THEN [bumped EXCEPT !.status = "pending", !.failedAt = now,
                                !.due = now + retryDelay(bumped)]
            ELSE [bumped EXCEPT !.status = "failed", !.error = TRUE]
      retry == ~ok /\ ShouldRetry(bumped)
      q1 == [q EXCEPT !.heap[idx] = j1,
                      !.timers = IF retry THEN @ (+) SetToBag({idx}) ELSE @,
                      !.processing = @ \ {job.id},
                      !.runs = @ (-) SetToBag({run})]
  IN notify(q1, job.id)

\* add(id, data).  kept: history: the job was in the map, neither completed
\* nor failed, when clear() was called.  due: when the delay of the job's
\* last retry setTimeout ends; failedAt: history: when that timer was set
add(q, id, batch) ==
  LET idx == Len(q.heap) + 1
      job == [id |-> id, batch |-> batch, status |-> "pending",
              retries |-> 0, maxRetries |-> options.maxRetries, error |-> FALSE,
              kept |-> FALSE, due |-> 0, failedAt |-> 0]
  IN tick([q EXCEPT !.heap = Append(@, job),
                    !.invoked = Append(@, 0),
                    !.jobs[id] = idx,
                    !.pending = Append(@, id),
                    !.ptag = Append(@, idx)])

\* getStats(): counts over the tracked jobs (the values of the jobs map)
Tracked == {jobs[id] : id \in {i \in JobIds : jobs[i] # 0}}
CountStatus(s) == Cardinality({id \in JobIds : jobs[id] # 0 /\ heap[jobs[id]].status = s})
getStats ==
  [pending |-> CountStatus("pending"), processing |-> CountStatus("processing"),
   completed |-> CountStatus("completed"), failed |-> CountStatus("failed"),
   total |-> Cardinality({id \in JobIds : jobs[id] # 0})]

\* ---- actions of the queue ----

\* add() called by a client of the queue.  Ids are interchangeable, so a
\* client names them in order of first use.
FirstUseOrder(id) == \A i \in 1..(id - 1) : \E k \in 1..Len(heap) : heap[k].id = i

Add(id) ==
  /\ Len(heap) < MaxAdds
  /\ FirstUseOrder(id)
  /\ SetQ(add(Q, id, FALSE))
  /\ UNCHANGED <<options, isRunning, pipeVars>>

\* start(): nothing when the queue is running already, tick() otherwise
startIdle(q, running) == q
start(q, running) == IF running THEN q ELSE tick(q)

\* process(fn): register the processor, then start()
Process(fn) ==
  /\ SetQ(start([Q EXCEPT !.processor = fn], isRunning))
  /\ isRunning' = TRUE
  /\ UNCHANGED <<options, pipeVars>>

\* the generic processor function resolves
FnResolve(run) ==
  /\ run.pc = "run"
  /\ SetQ(processJobEnd(Q, run, TRUE))
  /\ UNCHANGED <<options, isRunning, pipeVars>>

\* the generic processor function throws
FnReject(run) ==
  /\ run.pc = "run"
  /\ SetQ(processJobEnd(Q, run, FALSE))
  /\ UNCHANGED <<options, isRunning, pipeVars>>

\* the retry setTimeout callback of processJob()
RetryTimer(idx) ==
  /\ SetQ(tick([Q EXCEPT !.timers = @ (-) SetToBag({idx}),
                         !.pending = Append(@, heap[idx].id),
                         !.ptag = Append(@, 0)]))
  /\ UNCHANGED <<options, isRunning, pipeVars>>

\* clear(): which entries of the map are deleted
ClearsAllButProcessing(job) == job.status # "processing"
Clears(job) == job.status = "completed" \/ job.status = "failed"

\* clear()
Clear ==
  /\ \E id \in JobIds : jobs[id] # 0 /\ Clears(heap[jobs[id]])
  /\ jobs' = [id \in JobIds |->
               IF jobs[id] # 0 /\ Clears(heap[jobs[id]]) THEN 0 ELSE jobs[id]]
  /\ heap' = [i \in 1..Len(heap) |->
               IF jobs'[heap[i].id] = i THEN [heap[i] EXCEPT !.kept = TRUE]
               ELSE heap[i]]
  /\ UNCHANGED <<options, pending, processing, processor, isRunning,
                 timers, runs, ptag, dispatched, invoked, listeners, callbacks,
                 pipeVars>>

\* the tables and the limiter before any request
NoRow == [model |-> "none"]
NoDocument == [exists |-> FALSE, status |-> "none", errorMessage |-> FALSE,
               processingCompletedAt |-> FALSE]
InitTables ==
  /\ extractedData = {}
  /\ costMetrics = [id \in Ids |-> NoRow]
  /\ state = [isLimited |-> FALSE, retryAfter |-> 0, requestsInWindow |-> 0,
              windowStart |-> 0, consecutiveErrors |-> 0]
  /\ puts = EmptyBag
  /\ now = 0
  /\ resets = {}
  /\ calls = EmptyBag
  /\ hist = [errors |-> 0, streak |-> 0, due |-> 0, sec |-> 0]

\* a queue that is not the document queue: no document is involved
InitNoDocuments ==
  /\ impl = "pdf"
  /\ documents = [id \in Ids |-> NoDocument]
  /\ InitTables

\* DEFAULT_OPTIONS.retryDelay
DefaultRetryDelay == 1000
QueueOptions == [concurrency : 1..MaxConcurrency, maxRetries : 1..MaxMaxRetries,
                 retryDelay : {DefaultRetryDelay}]

InitQueue ==
  /\ heap = <<>>
  /\ jobs = [id \in JobIds |-> 0]
  /\ pending = <<>>
  /\ processing = {}
  /\ processor = "none"
  /\ isRunning = FALSE
  /\ timers = EmptyBag
  /\ runs = EmptyBag
  /\ ptag = <<>>
  /\ dispatched = <<>>
  /\ invoked = <<>>
  /\ listeners = [id \in JobIds |-> 0]
  /\ callbacks = <<>>

\* a ProcessingQueue constructed with any options, driven by a generic processor
InitQ ==
  /\ options \in QueueOptions
  /\ InitQueue
  /\ InitNoDocuments

NextQ ==
  \/ \E id \in Ids : Add(id)
  \/ (processor = "none" /\ Process("fn"))
  \/ \E run \in BagToSet(runs) : FnResolve(run)
  \/ \E run \in BagToSet(runs) : FnReject(run)
  \/ \E idx \in BagToSet(timers) : RetryTimer(idx)
  \/ Clear

SpecQ == InitQ /\ [][NextQ]_vars

\* ---- the claims about the queue ----

\* no id was passed to add() twice
DistinctIds == \A i, j \in 1..Len(heap) : heap[i].id = heap[j].id => i = j

InFlight == BagCardinality(runs)

\* C1: with pairwise distinct ids, the number of jobs in status 'processing'
\* and the number of processor invocations in flight never exceed the
\* configured concurrency.
C1_ConcurrencyCeiling ==
  DistinctIds =>
    /\ Cardinality({i \in 1..Len(heap) : heap[i].status = "processing"}) <= options.concurrency
    /\ InFlight <= options.concurrency
    /\ Cardinality(processing) <= options.concurrency

\* more jobs were added than the ceiling admits, the ceiling is reached and
\* jobs are left waiting
C1_Witness ==
  /\ DistinctIds
  /\ InFlight = options.concurrency
  /\ Len(pending) > 0
  /\ processor # "none"

\* C2: a job whose processor threw on every invocation is failed exactly when
\* it has been invoked maxRetries times, with the error recorded; a failed job
\* is never invoked again and never leaves 'failed' (ids pairwise distinct).
C2_FailedState ==
  DistinctIds =>
    \A i \in 1..Len(heap) :
      /\ heap[i].status = "failed" =>
           /\ invoked[i] = heap[i].maxRetries
           /\ heap[i].retries = heap[i].maxRetries
           /\ heap[i].error
      /\ (heap[i].retries = invoked[i] /\ invoked[i] = heap[i].maxRetries)
           => heap[i].status = "failed"
      /\ heap[i].retries <= invoked[i]
      /\ invoked[i] <= heap[i].maxRetries

C2_FailedStep ==
  DistinctIds' =>
    \A i \in 1..Len(heap) :
      heap[i].status = "failed" =>
        /\ heap'[i].status = "failed"
        /\ invoked'[i] = invoked[i]

C3_FifoAdmission ==
  /\ \A i, j \in 1..Len(dispatched) : i < j => dispatched[i] < dispatched[j]
  /\ DistinctIds => \A i \in 1..Len(dispatched) : dispatched[i] = i

\* three jobs dispatched in order; the second completed while the first is
\* still running or waiting for its retry (completion order is free)
C3_Witness ==
  /\ DistinctIds
  /\ Len(dispatched) >= 3
  /\ heap[2].status = "completed"
  /\ heap[1].status \in {"processing", "pending"}

\* ---- end-to-end drain ----

\* the scenario of the drain: every id is submitted once to an empty queue
\* whose processor is registered
InitDrain ==
  /\ options \in QueueOptions
  /\ heap = <<>>
  /\ jobs = [id \in JobIds |-> 0]
  /\ pending = <<>>
  /\ processing = {}
  /\ processor = "fn"
  /\ isRunning = TRUE
  /\ timers = EmptyBag
  /\ runs = EmptyBag
  /\ ptag = <<>>
  /\ dispatched = <<>>
  /\ invoked = <<>>
  /\ listeners = [id \in JobIds |-> 0]
  /\ callbacks = <<>>
  /\ InitNoDocuments

DrainAdd ==
  /\ Len(heap) < NumIds
  /\ Add(Len(heap) + 1)

\* the processor fails an attempt, but not the last one the queue grants
DrainReject(run) ==
  /\ heap[run.obj].retries + 1 < heap[run.obj].maxRetries
  /\ FnReject(run)

NextDrain ==
  \/ DrainAdd
  \/ \E run \in BagToSet(runs) : FnResolve(run)
  \/ \E run \in BagToSet(runs) : DrainReject(run)
  \/ \E idx \in BagToSet(timers) : RetryTimer(idx)

\* the event loop runs every settled promise and every due timer, and the
\* client performs all its add() calls
SpecDrain == InitDrain /\ [][NextDrain]_vars /\ WF_vars(NextDrain)

Drained ==
  getStats = [pending |-> 0, processing |-> 0, completed |-> NumIds,
              failed |-> 0, total |-> NumIds]

\* C4: after N distinct ids are added to an empty queue whose processor
\* succeeds for each of them, the queue reaches and keeps
\* getStats() = {pending 0, processing 0, completed N, failed 0, total N}.
C4_Drain == <>[]Drained

\* drained although the ceiling was below N and an attempt had failed
C4_Witness ==
  /\ Drained
  /\ options.concurrency < NumIds
  /\ \E i \in 1..Len(heap) : heap[i].retries > 0

(***************************************************************************)
(* Cost model (src/src/lib/utils.ts) and model names (geminiClient)        *)
(***************************************************************************)

\* MODELS of the Gemini client
MODELS == [PRO |-> "gemini-3-pro-preview", FLASH |-> "gemini-3-flash-preview"]

\* calculateCost(): the pricing table, USD per 1M tokens, in cents
pricing ==
  ("gemini-2.5-pro" :> [input |-> 125, output |-> 1000]) @@
  ("gemini-2.5-flash" :> [input |-> 30, output |-> 250])

\* pricing[model] is undefined for any other name, and rates.input then throws
PricingKnows(model) == model \in DOMAIN pricing

\* calculateCost(), for a model of the table.  Amounts are exact, in units of
\* 0.5e-8 USD, so that (tokens / 1e6) * rate and the halving stay integers.
calculateCostNoDiscount(inputTokens, outputTokens, model, useBatchApi) ==
  2 * (inputTokens * pricing[model].input + outputTokens * pricing[model].output)
calculateCostQuarter(inputTokens, outputTokens, model, useBatchApi) ==
  LET cost == 2 * (inputTokens * pricing[model].input + outputTokens * pricing[model].output)
  IN IF useBatchApi THEN cost \div 4 ELSE cost
calculateCost(inputTokens, outputTokens, model, useBatchApi) ==
  LET rates == pricing[model]
      cost == 2 * (inputTokens * rates.input + outputTokens * rates.output)
  IN IF useBatchApi THEN cost \div 2 ELSE cost

(***************************************************************************)
(* extractDocument (src/src/lib/extraction/extractionService.ts)           *)
(* impl = "pdf": lines 24-227; impl = "image": lines 424-635.              *)
(*                                                                         *)
(* A database call takes effect in the step in which it resolves.  What    *)
(* lies between two database calls (file access, the classification, the   *)
(* provider's answer, parsing and validation) touches no shared state and  *)
(* is taken together with the database call that follows it.  The          *)
(* classification columns of Document are not part of the model.           *)
(***************************************************************************)
NumDocs == 1
MaxSubmits == 2
MaxPosts == 1
MaxTokens == 1

\* ids 1..NumDocs have a Document row; requests may also name one id that has none
DocIds == 1..NumDocs
RequestIds == 1..(NumDocs + 1)
TokenCounts == 0..MaxTokens
Usages == {<<>>} \cup (TokenCounts \X TokenCounts)

queueRest == <<heap, jobs, pending, processing, processor, timers, ptag,
               dispatched, invoked, listeners, callbacks>>

\* one call moves on to its next await
Step(run, next) ==
  /\ runs' = (runs (-) SetToBag({run})) (+) SetToBag({next})
  /\ UNCHANGED queueRest

\* the call returns (ok) or throws (~ok) to its caller: the queue's
\* processJob, or a route handler that answers the request
Return(run, ok) ==
  IF run.obj = 0
  THEN /\ runs' = runs (-) SetToBag({run})
       /\ UNCHANGED queueRest
  ELSE SetQ(processJobEnd(Q, run, ok))

SetStatus(d, s) == documents' = [documents EXCEPT ![d].status = s]

\* prisma.document.findUnique; throws 'Document not found' outside the try
ExFind(run) ==
  /\ run.pc = "find"
  /\ IF documents[run.doc].exists
     THEN Step(run, [run EXCEPT !.snap = (documents[run.doc].status = "COMPLETED"),
                                !.pc = "setPre"])
     ELSE Return(run, FALSE)
  /\ UNCHANGED <<options, isRunning, pipeVars>>

\* status: 'PREPROCESSING'; then the file is read
ExSetPreprocessing(run) ==
  /\ run.pc = "setPre"
  /\ SetStatus(run.doc, "PREPROCESSING")
  /\ Step(run, [run EXCEPT !.pc = "preprocess"])
  /\ UNCHANGED <<options, isRunning, impl, extractedData, costMetrics, state, puts,
                 limVars>>

\* the file was read; status: 'CLASSIFYING'; then the classification runs
\* (it never throws out of its step)
ExSetClassifying(run) ==
  /\ run.pc = "preprocess"
  /\ SetStatus(run.doc, "CLASSIFYING")
  /\ Step(run, [run EXCEPT !.pc = "setExtr"])
  /\ UNCHANGED <<options, isRunning, impl, extractedData, costMetrics, state, puts,
                 limVars>>

\* model after `let model = options.forceModel || MODELS.FLASH`
DefaultModel(run) == IF run.force # "none" THEN run.force ELSE MODELS.FLASH
SkipsClassification(run) == run.skip \/ run.force # "none"

\* the limiter (rateLimiter.ts); times in ms; retryAfter = 0 stands for null
MAX_REQUESTS_PER_MINUTE == 60
WINDOW_MS == 60000
MAX_RETRIES == 5
BASE_DELAY_MS == 1000
MAX_DELAY_MS == 60000

RECURSIVE Pow2(_)
Pow2(n) == IF n <= 0 THEN 1 ELSE 2 * Pow2(n - 1)

Min(a, b) == IF a < b THEN a ELSE b

\* resetWindowIfNeeded(), as the new value of state
resetWindowIfNeededLate(s) ==
  IF now - s.windowStart > WINDOW_MS
  THEN [s EXCEPT !.windowStart = now, !.requestsInWindow = 0]
  ELSE s
resetWindowIfNeeded(s) ==
  IF now - s.windowStart >= WINDOW_MS
  THEN [s EXCEPT !.windowStart = now, !.requestsInWindow = 0]
  ELSE s

\* canMakeRequest(): the value it returns (its effect on state is
\* resetWindowIfNeeded(state))
canMakeRequestAtLimit ==
  LET s == resetWindowIfNeeded(state)
  IN ~s.isLimited /\ s.requestsInWindow <= MAX_REQUESTS_PER_MINUTE
canMakeRequest ==
  LET s == resetWindowIfNeeded(state)
  IN ~s.isLimited /\ s.requestsInWindow < MAX_REQUESTS_PER_MINUTE

\* recordRequest(), as the new value of state
recordRequest ==
  [resetWindowIfNeeded(state) EXCEPT !.requestsInWindow = @ + 1,
                                     !.consecutiveErrors = 0]

\* backoffDelay after the k-th consecutive error
backoffDelayLinear(k) == Min(BASE_DELAY_MS * k, MAX_DELAY_MS)
backoffDelay(k) == Min(BASE_DELAY_MS * Pow2(k - 1), MAX_DELAY_MS)

\* handleRateLimitError(retryAfterSeconds), as the new value of state;
\* retryAfterSeconds = 0 stands for the missing argument (and is falsy)
handleRateLimitError(s, retryAfterSeconds) ==
  [s EXCEPT !.isLimited = TRUE,
            !.consecutiveErrors = @ + 1,
            !.retryAfter = IF retryAfterSeconds # 0 THEN retryAfterSeconds * 1000
                           ELSE backoffDelay(s.consecutiveErrors + 1)]

\* what the pipeline does to the limiter when it calls the provider: nothing
\* (generateWithPdf / generateWithBase64Images call generateContent directly)
ProviderCallLimiter == state

\* getRecommendedModel() of the classifier
getRecommendedModel(docType) ==
  IF docType \in {"HANDWRITTEN", "MIXED", "SCANNED"} THEN MODELS.PRO ELSE MODELS.FLASH

\* What a classification can come to: the type found (by the provider's
\* answer, or by the text heuristic), or a failure (the call or the parsing of
\* its answer throws; extractPdfText throws).
DocumentTypes == {"HANDWRITTEN", "TYPED", "MIXED", "SCANNED"}
Outcomes ==
  {[type |-> t, failed |-> FALSE] : t \in DocumentTypes}
    \cup {[type |-> "none", failed |-> TRUE]}
BasicOutcomes == {[type |-> t, failed |-> FALSE] : t \in {"TYPED", "MIXED"}}

\* classifyDocument(): confidence in tenths
classifyDocument(outcome) ==
  IF outcome.failed
  THEN [type |-> "MIXED", confidence |-> 5, recommendedModel |-> MODELS.PRO]
  ELSE [type |-> outcome.type, confidence |-> 8,
        recommendedModel |-> getRecommendedModel(outcome.type)]

\* the classification block of extractDocument: the locals `classification`
\* and `model` after it.  The first definition classifies by the extracted
\* text (never HANDWRITTEN) and falls back to TYPED when that throws; the
\* second one calls classifyDocument().
Classify(run, outcome) ==
  IF SkipsClassification(run)
  THEN [class |-> "none", model |-> DefaultModel(run), cfail |-> FALSE]
  ELSE IF impl = "image"
  THEN [class |-> classifyDocument(outcome).type,
        model |-> classifyDocument(outcome).recommendedModel,
        cfail |-> outcome.failed]
  ELSE IF outcome.failed
  THEN [class |-> "TYPED", model |-> DefaultModel(run), cfail |-> TRUE]
  ELSE [class |-> outcome.type,
        model |-> IF outcome.type \in {"MIXED", "SCANNED"} THEN MODELS.PRO
                  ELSE MODELS.FLASH,
        cfail |-> FALSE]

\* the outcomes the classification of this run can have
PossibleOutcomes(run) ==
  IF SkipsClassification(run) THEN {[type |-> "TYPED", failed |-> FALSE]}
  ELSE IF impl = "image" THEN Outcomes
  ELSE {o \in Outcomes : o.type # "HANDWRITTEN"}

\* status: 'EXTRACTING' and modelUsed: the model the classification picked
\* (or the forced / default one); then the provider is called
ExSetExtracting(run, outcome) ==
  /\ run.pc = "setExtr"
  /\ outcome \in PossibleOutcomes(run)
  /\ SetStatus(run.doc, "EXTRACTING")
  /\ state' = ProviderCallLimiter
  /\ Step(run, [run EXCEPT !.model = Classify(run, outcome).model,
                           !.class = Classify(run, outcome).class,
                           !.cfail = Classify(run, outcome).cfail,
                           !.pc = "provider"])
  /\ UNCHANGED <<options, isRunning, impl, extractedData, costMetrics, puts,
                 limVars>>

\* the third argument of the calculateCost call
CostModel(run) == IF run.model = MODELS.PRO THEN MODELS.PRO ELSE MODELS.FLASH

\* where the call goes after extractedData.create: `if (result.usage)`,
\* calculateCost (throws for a model the pricing table lacks), costMetrics.create
AfterCreateData(run, usage) ==
  IF usage = <<>> THEN "setDone"
  ELSE IF PricingKnows(CostModel(run)) THEN "createCost"
  ELSE "catch"

\* The texts a provider can answer with, by what parseExtractionResult
\* does with them:
\*   "json":      a ```json block or a text starting with '{' that JSON.parse
\*                accepts
\*   "malformed": a ```json block or a text starting with '{' that JSON.parse
\*                rejects
\*   "prose":     neither a ```json block nor a text starting with '{'
Texts == {"json", "malformed", "prose"}
BasicTexts == {"json"}

\* parseExtractionResult: never throws. parsed: the result is JSON.parse's;
\* otherwise it is the basic structure, whose name .. time are null,
\* whose handwritten, signed and stamp are false, whose confidence_scores is
\* {} and which carries parse_error only when it was made in the catch branch
parseExtractionResult(text) ==
  [parsed |-> text = "json",
   nulls |-> IF text = "json" THEN {}
             ELSE {"name", "address", "postalcode", "city", "birthday", "date",
                   "time"},
   falses |-> IF text = "json" THEN {} ELSE {"handwritten", "signed", "stamp"},
   confidence_scores |-> {},
   parse_error |-> text = "malformed"]

\* What the provider answers with: the kind of its text and, for a text that
\* is JSON, what the object holds:
\*   invalid: some field fails a format check of validateExtractedData
\*   scores:  confidence_scores: present or not, whether some value is null,
\*            and its numeric values, in hundredths
Answer(text) == [text |-> text, invalid |-> FALSE, scores |-> NoScores]

\* the object extractDocument goes on with: JSON.parse's, or the basic structure
Parsed(answer) ==
  IF parseExtractionResult(answer.text).parsed
  THEN [invalid |-> answer.invalid, scores |-> answer.scores]
  ELSE NoData

\* validateExtractedData(data).length > 0.  The first definition also lists
\* every score that is not null and below 0.5; the second checks formats only.
validateExtractedData(data) ==
  \/ data.invalid
  \/ impl = "pdf" /\ data.scores.present /\ \E v \in data.scores.values : v < 50

\* needsReview, as a condition: `validationIssues.length > 0 ||
\* (confidence_scores && Object.values(confidence_scores).some(...))`, the
\* test of some() being `typeof score === 'number' && score < 0.7` in the
\* first definition and `score && score < 0.7` in the second
needsReview(data) ==
  \/ validateExtractedData(data)
  \/ /\ data.scores.present
     /\ \E v \in data.scores.values :
          IF impl = "pdf" THEN v < 70 ELSE v # 0 /\ v < 70

\* `status: needsReview ? 'partial' : 'success'` of the returned result
ResultStatus(run) == IF run.review THEN "partial" ELSE "success"

\* the provider answered (text, optional usage); parseExtractionResult,
\* validation, then prisma.extractedData.create (documentId is unique: a second
\* row is refused; JSON.parse(JSON.stringify(undefined)) in its arguments
\* throws when the object has no confidence_scores)
CreateDataUnchecked(run) == extractedData
CreateData(run) == extractedData \cup {run.doc}

ExCreateData(run, usage, answer) ==
  LET data == Parsed(answer)
      next == [run EXCEPT !.text = answer.text, !.data = data,
                          !.review = needsReview(data), !.paid = (usage # <<>>)]
  IN
  /\ run.pc = "provider"
  /\ IF run.doc \in extractedData \/ ~data.scores.present
     THEN /\ Step(run, [next EXCEPT !.pc = "catch"])
          /\ UNCHANGED extractedData
     ELSE /\ extractedData' = CreateData(run)
          /\ Step(run, [next EXCEPT !.pc = AfterCreateData(run, usage),
                                    !.created = TRUE])
  /\ UNCHANGED <<options, isRunning, impl, documents, costMetrics, state, puts,
                 limVars>>

\* status: 'COMPLETED', then return
ExSetCompleted(run) ==
  /\ run.pc = "setDone"
  /\ documents' = [documents EXCEPT ![run.doc].status = "COMPLETED",
                                    ![run.doc].processingCompletedAt = TRUE]
  /\ Return(run, TRUE)
  /\ UNCHANGED <<options, isRunning, impl, extractedData, costMetrics, state, puts,
                 limVars>>

\* the catch block: status 'FAILED' (errorMessage only in the second
\* definition), then rethrow
CatchUpdateKeepsStatus(doc) ==
  [doc EXCEPT !.processingCompletedAt = TRUE,
              !.errorMessage = IF impl = "image" THEN TRUE ELSE @]
CatchUpdate(doc) ==
  [doc EXCEPT !.status = "FAILED", !.processingCompletedAt = TRUE,
              !.errorMessage = IF impl = "image" THEN TRUE ELSE @]

CatchBlock(run) ==
  /\ documents' = [documents EXCEPT ![run.doc] = CatchUpdate(@)]
  /\ Return(run, FALSE)
  /\ UNCHANGED <<options, isRunning, impl, extractedData, costMetrics, state, puts,
                 limVars>>

\* the file is missing or unreadable
ExPreprocessThrows(run) ==
  /\ run.pc = "preprocess"
  /\ CatchBlock(run)

\* the provider call throws
ExProviderThrows(run) ==
  /\ run.pc = "provider"
  /\ CatchBlock(run)

\* extractedData.create or calculateCost threw
ExCatch(run) ==
  /\ run.pc = "catch"
  /\ CatchBlock(run)

\* one step of extractDocument, the classification ending in one of outcomes
\* and the provider answering with one of answers and one of usages
ExtractUsing(run, outcomes, answers, usages) ==
  \/ ExFind(run)
  \/ ExSetPreprocessing(run)
  \/ ExSetClassifying(run)
  \/ ExPreprocessThrows(run)
  \/ \E o \in outcomes : ExSetExtracting(run, o)
  \/ \E u \in usages, a \in answers : ExCreateData(run, u, a)
  \/ ExProviderThrows(run)
  \/ ExSetCompleted(run)
  \/ ExCatch(run)

ExtractWith(run, outcomes, answers) == ExtractUsing(run, outcomes, answers, Usages)

BasicAnswers == {Answer(t) : t \in BasicTexts}
Extract(run) == ExtractWith(run, BasicOutcomes, BasicAnswers)

(***************************************************************************)
(* The extract routes (src/src/app/api/extract/route.ts)                   *)
(***************************************************************************)

\* the document queue: concurrency and maxRetries of the singleton
DocQueueConcurrency == 5
DocQueueMaxRetries == 3
DocQueueRetryDelay == 2000
DocQueueOptions ==
  [concurrency |-> DocQueueConcurrency, maxRetries |-> DocQueueMaxRetries,
   retryDelay |-> DocQueueRetryDelay]
BatchThreshold == 100

\* lengths of the documentIds arrays submitted: a short one and a bulk one
SubmissionSizes == {2, BatchThreshold + 1}

\* POST: a request for one document arrives
PostBegin(id, force, skip) ==
  /\ Cardinality({r \in BagToSet(runs) : r.obj = 0}) < MaxPosts
  /\ runs' = runs (+) SetToBag({[NewRun(0, id, FALSE, "postFind")
                                   EXCEPT !.force = force, !.skip = skip]})
  /\ UNCHANGED <<options, isRunning, queueRest, pipeVars>>

\* POST: findUnique; 404, or the stored result for a COMPLETED document, or
\* the call of extractDocument
PostFind(run) ==
  /\ run.pc = "postFind"
  /\ IF documents[run.doc].exists /\ documents[run.doc].status # "COMPLETED"
     THEN Step(run, [run EXCEPT !.pc = "find"])
     ELSE Return(run, TRUE)
  /\ UNCHANGED <<options, isRunning, pipeVars>>

\* PUT: ensureProcessorRegistered(), useBatchApi, batchJob.create
useBatchApiAtThreshold(n) == n >= BatchThreshold
useBatchApi(n) == n > BatchThreshold

\* a PUT request: n = documentIds.length, ids = the entries the loop has
\* handled, i = their number, pc = where the handler is, exit = how the wait
\* ended, batchJob = status of its BatchJob row, results = the result list of
\* its response
NewPut(n) ==
  [n |-> n, i |-> 0, ids |-> <<>>, pc |-> "loop", exit |-> "none",
   batchJob |-> "PROCESSING", results |-> <<>>]

PutStep(req, next) == puts' = (puts (-) SetToBag({req})) (+) SetToBag({next})

\* one PUT handler at a time is inside its loop
PutBegin(n) ==
  /\ \A req \in BagToSet(puts) : req.pc # "loop"
  /\ puts' = puts (+) SetToBag({NewPut(n)})
  /\ IF processor = "none"
     THEN /\ SetQ(IF isRunning THEN [Q EXCEPT !.processor = "extract"]
                  ELSE tick([Q EXCEPT !.processor = "extract"]))
          /\ isRunning' = TRUE
     ELSE UNCHANGED <<queueRest, runs, isRunning>>
  /\ UNCHANGED <<options, impl, documents, extractedData, costMetrics, state,
                 limVars>>

\* `if (documentIds.length <= 10)`: wait for the queue, or answer 202 at once
WaitThreshold == 10
WaitsForCompletionBelow(n) == n < WaitThreshold
WaitsForCompletion(n) == n <= WaitThreshold

\* PUT: one iteration of the loop: document.update (a missing document is
\* skipped) and documentQueue.add.  After the last one the handler goes on
\* without an await: to the first getStats() of the wait, or to the 202 answer.
PutIteration(req, id) ==
  /\ req.pc = "loop"
  /\ documents' = IF documents[id].exists
                  THEN [documents EXCEPT ![id].status =
                          IF useBatchApi(req.n) THEN "QUEUED_FOR_BATCH" ELSE "PENDING"]
                  ELSE documents
  /\ SetQ(add(Q, id, useBatchApi(req.n)))
  /\ PutStep(req, [req EXCEPT !.i = @ + 1, !.ids = Append(@, id),
                              !.pc = IF req.i + 1 < req.n THEN "loop"
                                     ELSE IF WaitsForCompletion(req.n) THEN "poll"
                                     ELSE "accepted"])
  /\ UNCHANGED <<options, isRunning, impl, extractedData, costMetrics, state,
                 limVars>>

\* `stats.pending === 0 && stats.processing === 0`
QueueIdle == getStats.pending = 0 /\ getStats.processing = 0

\* documentIds.map(...): success of the tracked job of each id
Results(req) ==
  [k \in 1..Len(req.ids) |->
     jobs[req.ids[k]] # 0 /\ heap[jobs[req.ids[k]]].status = "completed"]

putRest == <<options, isRunning, queueVars, impl, documents, extractedData,
             costMetrics, state, limVars>>

\* PUT: one pass of the wait loop: break when the queue is idle, else sleep 500 ms
PutPoll(req) ==
  /\ req.pc = "poll"
  /\ IF QueueIdle
     THEN PutStep(req, [req EXCEPT !.pc = "update", !.exit = "idle",
                                   !.results = Results(req)])
     ELSE PutStep(req, [req EXCEPT !.pc = "sleep"])
  /\ UNCHANGED putRest

\* PUT: the sleep ends: before the 60 s ceiling the loop polls again, after it
\* the loop is left and the results are collected
PutWake(req, timedOut) ==
  /\ req.pc = "sleep"
  /\ IF timedOut
     THEN PutStep(req, [req EXCEPT !.pc = "update", !.exit = "timeout",
                                   !.results = Results(req)])
     ELSE PutStep(req, [req EXCEPT !.pc = "poll"])
  /\ UNCHANGED putRest

\* PUT: batchJob.update({status: 'COMPLETED'}) and the answer with the results
PutRespond(req) ==
  /\ req.pc = "update"
  /\ PutStep(req, [req EXCEPT !.pc = "done", !.batchJob = "COMPLETED"])
  /\ UNCHANGED putRest

ForceOptions == {<<"none", FALSE>>, <<MODELS.PRO, FALSE>>, <<"none", TRUE>>}

InitP ==
  /\ options = DocQueueOptions
  /\ InitQueue
  /\ impl \in {"pdf", "image"}
  /\ documents = [id \in Ids |->
                   IF id \in DocIds
                   THEN [exists |-> TRUE, status |-> "PENDING", errorMessage |-> FALSE,
                         processingCompletedAt |-> FALSE]
                   ELSE NoDocument]
  /\ InitTables

\* the documents of the routes' scenario are typed ones, and the provider
\* reports its token usage or does not
TypedOutcomes == {[type |-> "TYPED", failed |-> FALSE]}
RouteUsages == {<<>>, <<MaxTokens, MaxTokens>>}

NextP ==
  \/ \E n \in SubmissionSizes : Len(heap) < MaxSubmits /\ PutBegin(n)
  \/ \E req \in BagToSet(puts), id \in RequestIds :
       Len(heap) < MaxSubmits /\ PutIteration(req, id)
  \/ \E id \in RequestIds, f \in ForceOptions : PostBegin(id, f[1], f[2])
  \/ \E run \in BagToSet(runs) : PostFind(run)
  \/ \E run \in BagToSet(runs) :
       ExtractUsing(run, TypedOutcomes, BasicAnswers, RouteUsages)
  \/ \E idx \in BagToSet(timers) : RetryTimer(idx)

SpecP == InitP /\ [][NextP]_vars

\* ---- the claims about the pipeline ----

Statuses == {"PENDING", "QUEUED_FOR_BATCH", "PREPROCESSING", "CLASSIFYING",
             "EXTRACTING", "COMPLETED", "FAILED"}

\* the transitions the state machine of the specification allows
AllowedTransitions ==
  {<<"PENDING", "PREPROCESSING">>, <<"QUEUED_FOR_BATCH", "PENDING">>,
   <<"QUEUED_FOR_BATCH", "PREPROCESSING">>, <<"PREPROCESSING", "CLASSIFYING">>,
   <<"CLASSIFYING", "EXTRACTING">>, <<"EXTRACTING", "COMPLETED">>,
   <<"PENDING", "QUEUED_FOR_BATCH">>}
  \cup ({"PENDING", "QUEUED_FOR_BATCH", "PREPROCESSING", "CLASSIFYING", "EXTRACTING"}
        \X {"FAILED"})

\* C5: a document's status only moves along PENDING (or QUEUED_FOR_BATCH) ->
\* PREPROCESSING -> CLASSIFYING -> EXTRACTING -> COMPLETED, FAILED is
\* reachable from the non-terminal states, and FAILED is absorbing.
C5_StatusStateMachine ==
  [][\A d \in DocIds :
       /\ documents'[d].status # documents[d].status
            => <<documents[d].status, documents'[d].status>> \in AllowedTransitions
       /\ documents[d].status = "FAILED" => documents'[d].status = "FAILED"]_vars

\* C6: a document whose status is COMPLETED has an ExtractedData row.
C6_CompletedHasData ==
  \A d \in DocIds : documents[d].status = "COMPLETED" => d \in extractedData

\* a queue job ran the pipeline to the end
C6_Witness ==
  \E i \in 1..Len(heap) :
    /\ heap[i].status = "completed"
    /\ heap[i].id \in DocIds
    /\ documents[heap[i].id].status = "COMPLETED"
    /\ heap[i].id \in extractedData

\* C7: extractDocument called without forceModel on a document it finds
\* COMPLETED does not call the provider.
C7_Idempotent ==
  \A run \in BagToSet(runs) :
    (run.snap /\ run.force = "none") => run.pc # "provider"

\* C8: after a failure inside the try block the document is FAILED with
\* errorMessage and the completion timestamp persisted.
C8_FailurePersisted ==
  \A d \in DocIds :
    documents[d].status = "FAILED" =>
      documents[d].errorMessage /\ documents[d].processingCompletedAt

\* a call of the provider is dispatched in this step
ProviderDispatched ==
  \E r \in BagToSet(runs') : r.pc = "provider" /\ CopiesIn(r, runs') > CopiesIn(r, runs)

\* C9: every provider call of the pipeline is admitted by the limiter:
\* canMakeRequest() holds and recordRequest() counts it.
C9_ThroughRateLimiter ==
  [][ProviderDispatched =>
       (canMakeRequest /\ state'.requestsInWindow = state.requestsInWindow + 1)]_vars

(***************************************************************************)
(* Cost records (src/src/lib/optimization/costTracker.ts)                  *)
(***************************************************************************)

\* trackCost(): calculateCost and costMetrics.upsert
trackCost(documentId, inputTokens, outputTokens, model, usedBatchApi) ==
  [costMetrics EXCEPT ![documentId] =
     [model |-> model, inputTokens |-> inputTokens, outputTokens |-> outputTokens,
      estimatedCost |-> calculateCost(inputTokens, outputTokens, model, usedBatchApi),
      usedBatchApi |-> usedBatchApi]]

TrackCost(d, i, o, model, batch) ==
  /\ costMetrics' = trackCost(d, i, o, model, batch)
  /\ costMetrics' # costMetrics
  /\ UNCHANGED <<options, isRunning, queueVars, impl, documents, extractedData,
                 state, puts, limVars>>

\* single-document requests and cost tracking, without the queue
NextCost ==
  \/ \E d \in DocIds, i \in TokenCounts, o \in TokenCounts,
        m \in DOMAIN pricing, b \in BOOLEAN : TrackCost(d, i, o, m, b)
  \/ \E id \in RequestIds, f \in ForceOptions : PostBegin(id, f[1], f[2])
  \/ \E run \in BagToSet(runs) : PostFind(run)
  \/ \E run \in BagToSet(runs) : Extract(run)

SpecCost == InitP /\ [][NextCost]_vars

\* the price of the specification: per-tier rates in cents per 1M tokens,
\* in the unit of calculateCost
SpecTier(model) == IF model \in {"gemini-2.5-pro", MODELS.PRO} THEN "high" ELSE "low"
SpecPrice(row) ==
  LET inRate == IF SpecTier(row.model) = "high" THEN 125 ELSE 30
      outRate == IF SpecTier(row.model) = "high" THEN 1000 ELSE 250
      full == 2 * (row.inputTokens * inRate + row.outputTokens * outRate)
  IN IF row.usedBatchApi THEN full \div 2 ELSE full

C11_BulkDiscountHalf ==
  \A d \in Ids :
    costMetrics[d] # NoRow =>
      LET row == costMetrics[d]
      IN 2 * calculateCost(row.inputTokens, row.outputTokens, row.model, TRUE)
           = calculateCost(row.inputTokens, row.outputTokens, row.model, FALSE)

\* the price of a high-tier row with input and output tokens was computed
C11_Witness ==
  \E d \in Ids :
    /\ costMetrics[d] # NoRow
    /\ costMetrics[d].model = "gemini-2.5-pro"
    /\ costMetrics[d].inputTokens > 0
    /\ costMetrics[d].outputTokens > 0
(***************************************************************************)
(* PUT /api/extract alone: submissions around the two size thresholds      *)
(***************************************************************************)
MaxPuts == 2
MaxPolled == 1
MaxLoop == 12

\* lengths of documentIds on both sides of WaitThreshold and BatchThreshold
PutSizes == {1, WaitThreshold, WaitThreshold + 1, BatchThreshold, BatchThreshold + 1}

\* documentIds arrays: any ids for the first MaxSubmits entries, then the
\* last one repeated
PutIds(req) ==
  IF req.i < MaxSubmits THEN RequestIds ELSE {req.ids[req.i]}

\* The jobs' own steps are followed while the queue holds at most MaxPolled
\* jobs; in larger queues only the handler's steps are followed.
NextPut ==
  \/ \E n \in PutSizes : BagCardinality(puts) < MaxPuts /\ PutBegin(n)
  \/ \E req \in BagToSet(puts) : \E id \in PutIds(req) :
       Len(heap) < MaxLoop /\ PutIteration(req, id)
  \/ \E req \in BagToSet(puts) : PutPoll(req)
  \/ \E req \in BagToSet(puts), timedOut \in BOOLEAN : PutWake(req, timedOut)
  \/ \E req \in BagToSet(puts) : PutRespond(req)
  \/ \E run \in BagToSet(runs) : Len(heap) <= MaxPolled /\ Extract(run)
  \/ \E idx \in BagToSet(timers) : Len(heap) <= MaxPolled /\ RetryTimer(idx)

SpecPut == InitP /\ [][NextPut]_vars

\* the handler of req goes from req to next in this step
Moves(req, next) ==
  /\ req \in BagToSet(puts)
  /\ next # req
  /\ puts' = (puts (-) SetToBag({req})) (+) SetToBag({next})

\* C12: a submission of N ids has useBatchApi = (N > 100); each iteration of
\* its loop enqueues exactly one job, for the id of that iteration, carrying
\* that value, whatever N is.
C12_BulkThreshold ==
  [][\A req \in BagToSet(puts), next \in BagToSet(puts') :
       (Moves(req, next) /\ req.pc = "loop") =>
         /\ next.i = req.i + 1
         /\ next.n = req.n
         /\ Len(heap') = Len(heap) + 1
         /\ heap'[Len(heap')].id = next.ids[next.i]
         /\ jobs'[next.ids[next.i]] = Len(heap')
         /\ heap'[Len(heap')].batch = (req.n > BatchThreshold)]_vars

\* jobs of a submission of BatchThreshold + 1 ids are queued
C12_Witness ==
  \E req \in BagToSet(puts) :
    /\ req.n = BatchThreshold + 1
    /\ req.i >= 2
    /\ \A k \in 1..Len(heap) : heap[k].batch
\* where a handler is once its loop is over
C13_AfterLoop ==
  \A req \in BagToSet(puts) :
    /\ (req.pc # "loop" /\ req.n <= WaitThreshold) =>
         /\ req.pc \in {"poll", "sleep", "update", "done"}
         /\ req.pc \in {"update", "done"} =>
              /\ req.exit \in {"idle", "timeout"}
              /\ Len(req.results) = req.n
         /\ req.batchJob = "COMPLETED" <=> req.pc = "done"
    /\ (req.pc # "loop" /\ req.n > WaitThreshold) =>
         /\ req.pc = "accepted"
         /\ req.exit = "none"
         /\ req.batchJob = "PROCESSING"

\* the steps that end a handler's wait, or answer without one
C13_Leaving ==
  \A req \in BagToSet(puts), next \in BagToSet(puts') :
    Moves(req, next) =>
      /\ (req.pc # "update" /\ next.pc = "update") =>
           \/ /\ req.pc = "poll"
              /\ next.exit = "idle"
              /\ getStats.pending = 0 /\ getStats.processing = 0
           \/ /\ req.pc = "sleep"
              /\ next.exit = "timeout"
      /\ next.pc = "accepted" =>
           /\ req.pc = "loop"
           /\ req.n > WaitThreshold
           /\ heap'[Len(heap')].status \in {"pending", "processing"}

MaxRequests == 61
MaxNow == 70000
MaxWindowErrors == 1

limRest == <<options, isRunning, queueVars, impl, documents, extractedData,
             costMetrics, puts>>

\* a caller asks canMakeRequest(): the window is reset if it is over
CanMakeRequest ==
  /\ state' = resetWindowIfNeeded(state)
  /\ UNCHANGED <<limVars, limRest>>

RecordRequest ==
  /\ state' = recordRequest
  /\ hist' = [hist EXCEPT !.streak = 0]
  /\ UNCHANGED <<now, resets, calls, limRest>>

\* handleRateLimitError(): the new state and the setTimeout of the un-limiting
ScheduleReset(s, retryAfterSeconds) ==
  /\ resets' = resets \cup {[id |-> hist.errors + 1, due |-> now + s.retryAfter]}
  /\ hist' = [errors |-> hist.errors + 1, streak |-> hist.streak + 1,
              due |-> now + s.retryAfter, sec |-> retryAfterSeconds]

HandleRateLimitError(retryAfterSeconds) ==
  /\ state' = handleRateLimitError(state, retryAfterSeconds)
  /\ ScheduleReset(state', retryAfterSeconds)
  /\ UNCHANGED <<now, calls, limRest>>

\* the callback scheduled by handleRateLimitError() runs
ResetFiresKeepsLimit(r) ==
  /\ r.due <= now
  /\ state' = [state EXCEPT !.retryAfter = 0]
  /\ resets' = resets \ {r}
  /\ UNCHANGED <<now, calls, hist, limRest>>
ResetFires(r) ==
  /\ r.due <= now
  /\ state' = [state EXCEPT !.isLimited = FALSE, !.retryAfter = 0]
  /\ resets' = resets \ {r}
  /\ UNCHANGED <<now, calls, hist, limRest>>

\* reset()
Reset ==
  /\ state' = [isLimited |-> FALSE, retryAfter |-> 0, requestsInWindow |-> 0,
               windowStart |-> now, consecutiveErrors |-> 0]
  /\ hist' = [hist EXCEPT !.streak = 0]
  /\ UNCHANGED <<now, resets, calls, limRest>>

\* instants at which a timer is due
Deadlines ==
  {r.due : r \in resets}
    \cup {c.wake : c \in {x \in BagToSet(calls) : x.pc \in {"limited", "poll", "retry"}}}

\* the clock moves on to t; a timer that is due runs before the clock passes it
Advance(t) ==
  /\ t > now
  /\ \A d \in Deadlines : d >= t
  /\ now' = t
  /\ UNCHANGED <<state, resets, calls, hist, limRest>>

\* the last instant of the current window and the first one after it
WindowInstants == {state.windowStart + WINDOW_MS - 1, state.windowStart + WINDOW_MS}

NextWindow ==
  \/ CanMakeRequest
  \/ state.requestsInWindow < MaxRequests /\ RecordRequest
  \/ hist.errors < MaxWindowErrors /\ HandleRateLimitError(0)
  \/ \E r \in resets : ResetFires(r)
  \/ Reset
  \/ \E t \in WindowInstants \cup Deadlines : t <= MaxNow /\ Advance(t)

SpecWindow == InitP /\ [][NextWindow]_vars

\* requests recorded in the window that contains now
RecordedInWindow ==
  IF now - state.windowStart >= 60000 THEN 0 ELSE state.requestsInWindow

\* what canMakeRequest() answers at this moment
C14_Answer ==
  canMakeRequest <=> (~state.isLimited /\ RecordedInWindow < 60)

\* a request is recorded in this step
C14_Recording ==
  (state'.requestsInWindow # state.requestsInWindow /\ state'.requestsInWindow # 0)
    => (now' = now /\ state'.requestsInWindow = RecordedInWindow + 1)

\* C14: canMakeRequest() is true iff the limiter is not limited and fewer than
\* 60 requests are recorded in the current window: after 60 recordRequest()
\* calls in one window it is false until 60 s after the window's start, or
\* reset(), and true again afterwards unless limited.
C14_RateLimitWindow == []C14_Answer /\ [][C14_Recording]_vars

\* 60 requests were recorded in a window that is over now: the answer is true again
C14_Witness ==
  /\ state.requestsInWindow = 60
  /\ now = state.windowStart + 60000
  /\ canMakeRequest

C14_WitnessFull ==
  /\ state.requestsInWindow = 60
  /\ now = state.windowStart + 59999
  /\ ~state.isLimited
  /\ ~canMakeRequest
(***************************************************************************)
(* Rate-limit errors and their backoff                                     *)
(***************************************************************************)
MaxErrors == 7
MaxExplicit == 1
MaxBackoffRequests == 1

\* the retryAfterSeconds argument: missing, or 3 s
RetryAfterSeconds == {0, 3}

TimerRuns == \E r \in resets : ResetFires(r)
TimePasses == \E t \in Deadlines : t <= MaxNow /\ Advance(t)

\* an error is handled only while the clock can still reach the end of its
\* delay; only the first MaxExplicit errors may carry a retry-after
NextBackoff ==
  \/ \E sec \in RetryAfterSeconds :
       /\ hist.errors < MaxErrors
       /\ sec # 0 => hist.errors < MaxExplicit
       /\ now + MAX_DELAY_MS <= MaxNow
       /\ HandleRateLimitError(sec)
  \/ state.requestsInWindow < MaxBackoffRequests /\ RecordRequest
  \/ TimerRuns
  \/ TimePasses

\* timers run when they are due, and time passes
SpecBackoff ==
  InitP /\ [][NextBackoff]_vars /\ WF_vars(TimerRuns) /\ WF_vars(TimePasses)

\* handleRateLimitError() is called in this step
ErrorHandled == hist'.errors = hist.errors + 1

\* C15: handleRateLimitError() leaves isLimited true; once the delay it
\* computed is over, and no other error was handled, isLimited is false
\* without any call; isLimited is eventually false.
C15_Backoff ==
  /\ [][ErrorHandled => (state'.isLimited /\ hist'.due = now + state'.retryAfter)]_vars
  /\ []((hist.errors > 0 /\ now > hist.due) => ~state.isLimited)
  /\ (state.isLimited ~> ~state.isLimited)

\* the delay of the last error is over and its timer has un-limited the limiter
C15_Witness ==
  /\ hist.errors > 0
  /\ now > hist.due
  /\ ~state.isLimited

\* C16: the k-th handleRateLimitError() in a row, without retry-after argument
\* and without recordRequest() in between, sets retryAfter to
\* min(1000 * 2^(k-1), 60000): 1000, 2000, 4000 for k = 1, 2, 3.
C16_ExponentialBackoff ==
  [][(ErrorHandled /\ hist'.sec = 0) =>
       LET k == hist'.streak
       IN /\ state'.retryAfter = Min(1000 * Pow2(k - 1), 60000)
          /\ k = 1 => state'.retryAfter = 1000
          /\ k = 2 => state'.retryAfter = 2000
          /\ k = 3 => state'.retryAfter = 4000
          /\ state'.retryAfter <= 60000]_vars

\* the seventh error in a row reaches the ceiling
C16_Witness ==
  /\ hist.streak = 7
  /\ hist.sec = 0
  /\ state.retryAfter = 60000
(***************************************************************************)
(* withRateLimit()                                                         *)
(***************************************************************************)
MaxCalls == 2

\* what fn() may reject with: an error with status 429, one whose message
\* contains '429', one whose message contains 'rate limit', any other error
Errors == {"status429", "message429", "messageRateLimit", "other"}

\* `err.status === 429 || err.message?.includes('429') || err.message?.includes('rate limit')`
isRateLimitErrorAny(err) == TRUE
isRateLimitError(err) == err \in {"status429", "message429", "messageRateLimit"}

\* one execution: maxRetries and attempt of its loop, pc = the await it is at,
\* wake = when its delay() ends, invoked = calls of fn so far, limited = those
\* that failed with a rate-limit error, thrown = what it threw
NewCall(maxRetries) ==
  [maxRetries |-> maxRetries, attempt |-> 0, pc |-> "start", wake |-> 0,
   invoked |-> 0, limited |-> 0, thrown |-> "none"]

CallStep(c, next) == calls' = (calls (-) SetToBag({c})) (+) SetToBag({next})

\* `while (!canMakeRequest()) await delay(1000)`, then recordRequest() and
\* fn(); old is the execution as it was before this step, c as it is now
Check(old, c) ==
  IF canMakeRequest
  THEN /\ state' = recordRequest
       /\ hist' = [hist EXCEPT !.streak = 0]
       /\ CallStep(old, [c EXCEPT !.pc = "fn", !.invoked = @ + 1])
  ELSE /\ state' = resetWindowIfNeeded(state)
       /\ hist' = hist
       /\ CallStep(old, [c EXCEPT !.pc = "poll", !.wake = now + 1000])

\* the head of the loop for c.attempt
LoopHead(old, c) ==
  IF c.attempt > c.maxRetries
  THEN /\ CallStep(old, [c EXCEPT !.pc = "thrown", !.thrown = "Max retries exceeded"])
       /\ UNCHANGED <<state, hist>>
  ELSE IF state.isLimited /\ state.retryAfter # 0
  THEN /\ CallStep(old, [c EXCEPT !.pc = "limited", !.wake = now + state.retryAfter])
       /\ UNCHANGED <<state, hist>>
  ELSE Check(old, c)

\* withRateLimit(fn, {maxRetries}) is called and runs to its first await
CallBegin(maxRetries) ==
  /\ LoopHead(NewCall(maxRetries), NewCall(maxRetries))
  /\ UNCHANGED <<now, resets, limRest>>

\* a delay() of the call ends
CallWake(c) ==
  /\ c.pc \in {"limited", "poll", "retry"}
  /\ c.wake <= now
  /\ IF c.pc = "retry" THEN LoopHead(c, [c EXCEPT !.attempt = @ + 1])
     ELSE Check(c, c)
  /\ UNCHANGED <<now, resets, limRest>>

\* fn() resolves: withRateLimit returns its value
FnReturns(c) ==
  /\ c.pc = "fn"
  /\ CallStep(c, [c EXCEPT !.pc = "returned"])
  /\ UNCHANGED <<state, now, resets, hist, limRest>>

\* `const delayMs = BASE_DELAY_MS * Math.pow(2, attempt)`
delayMsFixed(attempt) == BASE_DELAY_MS
delayMs(attempt) == BASE_DELAY_MS * Pow2(attempt)

\* fn() rejects with err: the catch block
FnThrows(c, err) ==
  /\ c.pc = "fn"
  /\ IF isRateLimitError(err)
     THEN /\ state' = handleRateLimitError(state, 0)
          /\ ScheduleReset(state', 0)
          /\ IF c.attempt < c.maxRetries
             THEN CallStep(c, [c EXCEPT !.pc = "retry", !.limited = @ + 1,
                                        !.wake = now + delayMs(c.attempt)])
             ELSE CallStep(c, [c EXCEPT !.pc = "thrown", !.limited = @ + 1,
                                        !.thrown = err])
     ELSE /\ CallStep(c, [c EXCEPT !.pc = "thrown", !.thrown = err])
          /\ UNCHANGED <<state, resets, hist>>
  /\ UNCHANGED <<now, limRest>>

\* the maxRetries option: none retried, one retry, the default
MaxRetriesOptions == {0, 1, MAX_RETRIES}

NextCall ==
  \/ \E m \in MaxRetriesOptions : BagCardinality(calls) < MaxCalls /\ CallBegin(m)
  \/ \E c \in BagToSet(calls) : CallWake(c)
  \/ \E c \in BagToSet(calls) : FnReturns(c)
  \/ \E c \in BagToSet(calls), err \in Errors : FnThrows(c, err)
  \/ \E r \in resets : ResetFires(r)
  \/ \E t \in Deadlines : t <= MaxNow /\ Advance(t)

SpecCall == InitP /\ [][NextCall]_vars

\* the execution c of withRateLimit goes to next in this step
CallMoves(c, next) ==
  /\ c \in BagToSet(calls)
  /\ next # c
  /\ calls' = (calls (-) SetToBag({c})) (+) SetToBag({next})

\* an execution that threw an error that is no rate-limit signal
C17_NoRetry ==
  \A c \in BagToSet(calls) :
    c.thrown = "other" => (c.pc = "thrown" /\ c.invoked = c.limited + 1)

\* the step in which it throws
C17_Rethrow ==
  \A c \in BagToSet(calls), next \in BagToSet(calls') :
    (CallMoves(c, next) /\ next.thrown = "other") =>
      /\ c.pc = "fn"
      /\ next.pc = "thrown"
      /\ next.invoked = c.invoked
      /\ state' = state
      /\ resets' = resets
      /\ hist' = hist

\* C17: when fn fails with an error that is no rate-limit signal,
\* withRateLimit throws that error at once, does not call fn again for it,
\* and the limiter is not made limited by it.
C17_NonRateLimitError == []C17_NoRetry /\ [][C17_Rethrow]_vars

\* after one retry of a rate-limit error, fn failed with another error
C17_Witness ==
  \E c \in BagToSet(calls) :
    c.pc = "thrown" /\ c.thrown = "other" /\ c.limited = 1 /\ c.invoked = 2

\* C18: when fn fails with a rate-limit error on every attempt, withRateLimit
\* fails with 'Max retries exceeded' once the retries are used up.
C18_MaxRetriesExceeded ==
  \A c \in BagToSet(calls) :
    (c.pc = "thrown" /\ c.limited = c.invoked /\ c.invoked = c.maxRetries + 1)
      => c.thrown = "Max retries exceeded"
(***************************************************************************)
(* Single-document requests with every outcome of the classification       *)
(***************************************************************************)
NextClassify ==
  \/ \E id \in RequestIds, f \in ForceOptions : PostBegin(id, f[1], f[2])
  \/ \E run \in BagToSet(runs) : PostFind(run)
  \/ \E run \in BagToSet(runs) : ExtractWith(run, Outcomes, BasicAnswers)

SpecClassify == InitP /\ [][NextClassify]_vars

\* C19: the model of a classified document is the tier of its classification
\* (HANDWRITTEN, MIXED, SCANNED: high; TYPED: low), and a failed
\* classification gives MIXED and the high tier, never the low one.
C19_ModelRouting ==
  \A run \in BagToSet(runs) :
    (run.pc \in {"provider", "setDone", "catch"} /\ ~SkipsClassification(run)) =>
      /\ run.class \in {"HANDWRITTEN", "MIXED", "SCANNED"} => run.model = MODELS.PRO
      /\ run.class = "TYPED" => run.model = MODELS.FLASH
      /\ run.cfail => (run.class = "MIXED" /\ run.model = MODELS.PRO)

(***************************************************************************)
(* Single-document requests with every kind of provider answer             *)
(***************************************************************************)
NextParse ==
  \/ \E id \in RequestIds, f \in ForceOptions : PostBegin(id, f[1], f[2])
  \/ \E run \in BagToSet(runs) : PostFind(run)
  \/ \E run \in BagToSet(runs) : ExtractWith(run, BasicOutcomes, {Answer(t) : t \in Texts})

SpecParse == InitP /\ [][NextParse]_vars

\* C20: after a provider answer that is not parseable JSON the extraction
\* does not fail: the synthesized result carries the parse_error marker, has
\* null fields and empty confidence scores, is persisted, and the call goes on
\* to COMPLETED, never into the catch block that sets FAILED.
C20_UnparseableAnswer ==
  \A run \in BagToSet(runs) :
    run.text \in {"malformed", "prose"} =>
      /\ parseExtractionResult(run.text).parse_error
      /\ parseExtractionResult(run.text).falses = {}
      /\ parseExtractionResult(run.text).confidence_scores = {}
      /\ run.pc # "catch"
      /\ run.doc \in extractedData

(***************************************************************************)
(* Single-document requests with every content of the provider's answer    *)
(***************************************************************************)
MaxScores == 2

\* scores in hundredths, around the two thresholds 0.5 and 0.7
ScoreValues == {0, 49, 50, 69, 70, 100}
ScoreSets ==
  {[present |-> FALSE, hasNull |-> FALSE, values |-> {}]} \cup
  [present : {TRUE}, hasNull : BOOLEAN,
   values : {S \in SUBSET ScoreValues : Cardinality(S) <= MaxScores}]
Answers == [text : BasicTexts, invalid : BOOLEAN, scores : ScoreSets]

NextReview ==
  \/ \E id \in RequestIds, f \in ForceOptions : PostBegin(id, f[1], f[2])
  \/ \E run \in BagToSet(runs) : PostFind(run)
  \/ \E run \in BagToSet(runs) : ExtractWith(run, BasicOutcomes, Answers)

SpecReview == InitP /\ [][NextReview]_vars

\* C21: for every extracted result, needsReview holds exactly when the
\* validation found an issue or some confidence score is below 0.7 (0.69 and
\* 0 count, 0.70 does not), and the returned status is 'partial' exactly then.
C21_NeedsReview ==
  \A run \in BagToSet(runs) :
    (run.text = "json" /\ run.data.scores.present) =>
      /\ run.review <=> (\/ validateExtractedData(run.data)
                         \/ \E v \in run.data.scores.values : v < 70)
      /\ ResultStatus(run) = "partial" <=> run.review

\* C22: a queued job whose document does not exist is invoked exactly once:
\* its processor is never called a second time, and after the failed
\* invocation the job is 'failed', not waiting for a retry.
C22_NotFoundFatal ==
  \A i \in 1..Len(heap) :
    ~documents[heap[i].id].exists =>
      /\ invoked[i] <= 1
      /\ (invoked[i] = 1 /\ heap[i].status # "processing") => heap[i].status = "failed"

(***************************************************************************)
(* clear() while jobs of distinct ids are added, run, fail and are retried *)
(***************************************************************************)
NextClear ==
  \/ DrainAdd
  \/ \E run \in BagToSet(runs) : FnResolve(run)
  \/ \E run \in BagToSet(runs) : FnReject(run)
  \/ \E idx \in BagToSet(timers) : RetryTimer(idx)
  \/ Clear

\* the event loop runs every due timer, and every processor call settles
SpecClear ==
  /\ InitDrain
  /\ [][NextClear]_vars
  /\ WF_vars(\E run \in BagToSet(runs) : FnResolve(run) \/ FnReject(run))
  /\ WF_vars(\E idx \in BagToSet(timers) : RetryTimer(idx))

Terminal(job) == job.status \in {"completed", "failed"}

\* a step of clear(): the map changes and no job is created
C23_ClearStep ==
  (jobs' # jobs /\ Len(heap') = Len(heap)) =>
    /\ \A id \in Ids :
         jobs'[id] = IF jobs[id] # 0 /\ Terminal(heap[jobs[id]]) THEN 0 ELSE jobs[id]
    /\ \A i \in 1..Len(heap) :
         /\ heap'[i].status = heap[i].status
         /\ heap'[i].retries = heap[i].retries
    /\ UNCHANGED <<pending, processing, timers, runs>>

C23_Survives ==
  \A i \in 1..NumIds :
    (i <= Len(heap) /\ heap[i].kept) ~> (i <= Len(heap) /\ Terminal(heap[i]))

\* C23: clear() deletes from the map exactly the jobs that are completed or
\* failed when it is called and leaves every other job, the pending list, the
\* in-flight set and the retry timers as they are; a job that was kept by
\* clear() still reaches 'completed' or 'failed'.
C23_Clear == [][C23_ClearStep]_vars /\ C23_Survives

\* a job that waited for its retry when clear() removed another one has failed
\* for good, and one that clear() kept has completed
C23_Witness ==
  /\ \E i \in 1..Len(heap) : heap[i].kept /\ heap[i].status = "failed"
  /\ \E i \in 1..Len(heap) : heap[i].kept /\ heap[i].status = "completed"
  /\ \E i \in 1..Len(heap) : jobs[heap[i].id] = 0

(***************************************************************************)
(* Completion listeners of the queue                                       *)
(***************************************************************************)
MaxCallbacks == 2

\* onComplete(jobId, callback): listeners.set(jobId, callback)
OnComplete(id, throws) ==
  /\ Len(callbacks) < MaxCallbacks
  /\ callbacks' = Append(callbacks, [throws |-> throws, fired |-> 0])
  /\ listeners' = [listeners EXCEPT ![id] = Len(callbacks) + 1]
  /\ UNCHANGED <<options, isRunning, heap, jobs, pending, processing, processor,
                 timers, runs, ptag, dispatched, invoked, pipeVars>>

NextListen ==
  \/ \E id \in Ids : Add(id)
  \/ (processor = "none" /\ Process("fn"))
  \/ \E run \in BagToSet(runs) : FnResolve(run)
  \/ \E run \in BagToSet(runs) : FnReject(run)
  \/ \E idx \in BagToSet(timers) : RetryTimer(idx)
  \/ \E id \in Ids, throws \in BOOLEAN : OnComplete(id, throws)

SpecListen == InitQ /\ [][NextListen]_vars

\* C24: the map holds at most one callback per job id, and a callback passed
\* to onComplete() is invoked at most once: after its invocation it is no
\* longer registered, so later attempts of the job do not invoke it again.
C24_FiredOnce ==
  \A k \in 1..Len(callbacks) :
    /\ callbacks[k].fired <= 1
    /\ callbacks[k].fired = 1 => \A id \in Ids : listeners[id] # k

(***************************************************************************)
(* getCostSummary (src/src/lib/optimization/costTracker.ts), over a table  *)
(* filled by trackCost() and over the table left by a submission of all    *)
(* the documents to the queue                                              *)
(***************************************************************************)

\* prisma.costMetrics.findMany(): the rows of the table, as a sequence
RECURSIVE RowsFrom(_)
RowsFrom(id) ==
  IF id > NumIds THEN <<>>
  ELSE (IF costMetrics[id] = NoRow THEN <<>> ELSE <<costMetrics[id]>>) \o RowsFrom(id + 1)
findMany == RowsFrom(1)

\* getCostSummary(): one pass over the rows.  averageCostPerDocument is kept
\* as the fraction totalCost / totalDocuments (0 / 1 for no rows).
RECURSIVE summarize(_, _)
summarize(metrics, acc) ==
  IF metrics = <<>> THEN acc
  ELSE LET metric == Head(metrics)
           model == metric.model
           known == model \in DOMAIN acc.costByModel
       IN summarize(Tail(metrics),
            [acc EXCEPT
               !.totalCost = @ + metric.estimatedCost,
               !.costByModel =
                  IF known THEN [@ EXCEPT ![model] = @ + metric.estimatedCost]
                  ELSE @ @@ (model :> metric.estimatedCost),
               !.batchSavings =
                  IF metric.usedBatchApi THEN @ + metric.estimatedCost ELSE @])

getCostSummary ==
  LET metrics == findMany
      sums == summarize(metrics, [totalCost |-> 0, costByModel |-> <<>>,
                                  batchSavings |-> 0])
  IN [totalDocuments |-> Len(metrics),
      totalCost |-> sums.totalCost,
      costByModel |-> sums.costByModel,
      batchSavings |-> sums.batchSavings,
      averageCostPerDocument |->
        IF Len(metrics) > 0 THEN <<sums.totalCost, Len(metrics)>> ELSE <<0, 1>>]

\* every document exists and is submitted by one PUT
InitSummary ==
  /\ options = DocQueueOptions
  /\ InitQueue
  /\ impl \in {"pdf", "image"}
  /\ documents = [id \in Ids |->
                    [exists |-> TRUE, status |-> "PENDING", errorMessage |-> FALSE,
                     processingCompletedAt |-> FALSE]]
  /\ InitTables

\* the provider reports its token counts
PaidUsages == TokenCounts \X TokenCounts

NoRows == \A d \in Ids : costMetrics[d] = NoRow

\* Either trackCost() fills the table while nothing is submitted, or all the
\* documents are submitted, in the order of their ids, while the table is empty.
NextSummary ==
  \/ \E d \in Ids, i \in TokenCounts, o \in TokenCounts,
        m \in DOMAIN pricing, b \in BOOLEAN :
       puts = EmptyBag /\ TrackCost(d, i, o, m, b)
  \/ NoRows /\ puts = EmptyBag /\ PutBegin(NumIds)
  \/ \E req \in BagToSet(puts) : PutIteration(req, req.i + 1)
  \/ \E req \in BagToSet(puts) : PutPoll(req)
  \/ \E req \in BagToSet(puts) : PutWake(req, FALSE)
  \/ \E req \in BagToSet(puts) : PutRespond(req)
  \/ \E run \in BagToSet(runs) :
       ExtractUsing(run, BasicOutcomes, BasicAnswers, PaidUsages)
  \/ \E idx \in BagToSet(timers) : RetryTimer(idx)

SpecSummary == InitSummary /\ [][NextSummary]_vars

RECURSIVE SumOver(_, _)
SumOver(S, f) ==
  IF S = {} THEN 0
  ELSE LET x == CHOOSE y \in S : TRUE IN f[x] + SumOver(S \ {x}, f)

RowIds == {d \in Ids : costMetrics[d] # NoRow}
Cost == [d \in RowIds |-> costMetrics[d].estimatedCost]
BatchCost == [d \in RowIds |-> IF costMetrics[d].usedBatchApi
                                THEN costMetrics[d].estimatedCost ELSE 0]

\* the sums of the summary, for the rows of the table
C25_Sums ==
  LET sum == getCostSummary
  IN /\ sum.totalCost = SumOver(RowIds, Cost)
     /\ SumOver(DOMAIN sum.costByModel, sum.costByModel) = sum.totalCost
     /\ \A m \in DOMAIN sum.costByModel :
          sum.costByModel[m] =
            SumOver({d \in RowIds : costMetrics[d].model = m}, Cost)
     /\ sum.batchSavings = SumOver(RowIds, BatchCost)
     /\ sum.averageCostPerDocument =
          IF RowIds = {} THEN <<0, 1>> ELSE <<sum.totalCost, Cardinality(RowIds)>>

\* the submission was answered after the queue had gone idle
ScenarioEnded ==
  \E req \in BagToSet(puts) : req.pc = "done" /\ req.exit = "idle"

\* C25: the summary's totalCost, costByModel, batchSavings and average are the
\* sums and the quotient of the claim for every table of cost rows; and after
\* all the documents were submitted and their usage reported, the table holds
\* one row per document and totalCost is the sum of their prices.
C25_CostSummary ==
  /\ C25_Sums
  /\ ScenarioEnded =>
       /\ getCostSummary.totalDocuments = NumIds
       /\ getCostSummary.totalCost =
            SumOver(Ids, [d \in Ids |-> IF costMetrics[d] = NoRow THEN 0
                                        ELSE SpecPrice(costMetrics[d])])

\* C26: a failed classification does not end the call: the run goes on to the
\* provider call with the document EXTRACTING, and its classification is TYPED.
C26_ClassifierFailure ==
  \A run \in BagToSet(runs) :
    run.cfail =>
      /\ run.pc \in {"provider", "setDone", "createCost", "catch"}
      /\ run.class = "TYPED"

\* C27: a re-extraction of a document that was COMPLETED, once the provider
\* has answered, stores its result in place of the previous row: it does not
\* fail on the row that exists.
C27_ReextractionReplaces ==
  \A run \in BagToSet(runs) :
    (run.snap /\ run.text # "none") => run.pc # "catch"

\* C28: a call whose provider answer came with usage data and whose
\* ExtractedData row was persisted does not fail: pricing the call does not
\* throw, so the call goes on to its CostMetrics row and to COMPLETED.
C28_PricingNeverFails ==
  \A run \in BagToSet(runs) :
    (run.created /\ run.paid) => run.pc # "catch"

(***************************************************************************)
(* The queue's retries in real time                                        *)
(***************************************************************************)

\* a queue with the retry options of documentQueue
RetryOptions ==
  [concurrency : 1..MaxConcurrency, maxRetries : {DocQueueMaxRetries},
   retryDelay : {DocQueueRetryDelay}]

InitRetry ==
  /\ options \in RetryOptions
  /\ InitQueue
  /\ InitNoDocuments

\* the retry setTimeout callback runs, not before its delay has passed
RetryTimerDue(idx) ==
  /\ now >= heap[idx].due
  /\ RetryTimer(idx)

\* the instants the clock is followed to: the end of a retry delay and the
\* millisecond before it
RetryInstants ==
  UNION {{heap[idx].due - 1, heap[idx].due} : idx \in BagToSet(timers)}

NextRetry ==
  \/ \E id \in Ids : Add(id)
  \/ (processor = "none" /\ Process("fn"))
  \/ \E run \in BagToSet(runs) : FnResolve(run)
  \/ \E run \in BagToSet(runs) : FnReject(run)
  \/ \E idx \in BagToSet(timers) : RetryTimerDue(idx)
  \/ \E t \in RetryInstants : Advance(t)

SpecRetry == InitRetry /\ [][NextRetry]_vars

InPending(id) == \E k \in 1..Len(pending) : pending[k] = id

\* a job that waits for its retry is 'pending' and holds no slot
C29_Waiting ==
  DistinctIds =>
    \A idx \in BagToSet(timers) :
      /\ heap[idx].status = "pending"
      /\ heap[idx].retries >= 1
      /\ heap[idx].retries < heap[idx].maxRetries
      /\ ~InPending(heap[idx].id)
      /\ heap[idx].id \notin processing
      /\ \A run \in BagToSet(runs) : run.obj # idx

\* a failed invocation that leaves retries below maxRetries sets the timer;
\* the timer re-appends the job not before retryDelay * retries ms have passed
C29_Requeue ==
  DistinctIds =>
    \A i \in 1..Len(heap) :
      /\ (heap'[i].retries = heap[i].retries + 1 /\ heap'[i].retries < heap[i].maxRetries)
           => /\ heap'[i].status = "pending"
              /\ heap'[i].due = now + options.retryDelay * heap'[i].retries
              /\ CopiesIn(i, timers') = CopiesIn(i, timers) + 1
              /\ ~InPending(heap[i].id)'
              /\ heap[i].id \notin processing'
      /\ CopiesIn(i, timers') < CopiesIn(i, timers)
           => /\ now >= heap[i].failedAt + options.retryDelay * heap[i].retries
              /\ InPending(heap[i].id)' \/ heap'[i].status = "processing"

\* C29: when an invocation throws and retries, after the increment, is below
\* maxRetries, the job is 'pending' again and is re-appended to the pending
\* list only after retryDelay * retries ms; meanwhile it is neither in the
\* pending list nor in the in-flight set (ids pairwise distinct).
C29_LinearBackoff == []C29_Waiting /\ [][C29_Requeue]_vars

\* with one slot, a job waits for its second retry while another job, added
\* later, is being processed
C29_Witness ==
  /\ DistinctIds
  /\ options.concurrency = 1
  /\ \E idx \in BagToSet(timers) :
       /\ heap[idx].retries = 2
       /\ heap[idx].due = heap[idx].failedAt + 2 * options.retryDelay
       /\ now < heap[idx].due
       /\ \E j \in (idx + 1)..Len(heap) : heap[j].status = "processing"

(***************************************************************************)
(* The scheduling tick and a falsy job id                                  *)
(***************************************************************************)

\* add('', data) called by a client of the queue
AddEmpty ==
  /\ Len(heap) < MaxAdds
  /\ SetQ(add(Q, EmptyId, FALSE))
  /\ UNCHANGED <<options, isRunning, pipeVars>>

NextTick ==
  \/ \E id \in Ids : Add(id)
  \/ AddEmpty
  \/ (processor = "none" /\ Process("fn"))
  \/ \E run \in BagToSet(runs) : FnResolve(run)
  \/ \E run \in BagToSet(runs) : FnReject(run)
  \/ \E idx \in BagToSet(timers) : RetryTimer(idx)

SpecTick == InitQ /\ [][NextTick]_vars

\* a job waits in the pending list although a slot is free
Starved == Len(pending) > 0 /\ Cardinality(processing) < options.concurrency

\* control returns from add(), from a finished processJob or from a retry
\* timer: every step of the queue but the registration of the processor
C30_Returns == processor' = processor

\* C30: once a processor is registered, whenever control returns from add(),
\* from a finished processJob or from a retry timer, the pending list is not
\* non-empty while fewer than `concurrency` jobs are in flight.
C30_WorkConserving == [][(processor # "none" /\ C30_Returns) => ~Starved']_vars

(***************************************************************************)
(* Jobs added before a processor is registered                             *)
(***************************************************************************)

\* the clients add their jobs first; process() is called afterwards, and
\* once more with another function
NextProcess ==
  \/ \E id \in Ids : (processor = "none" /\ Add(id))
  \/ \E fn \in {"fn", "fn2"} : (processor # fn /\ Process(fn))
  \/ \E run \in BagToSet(runs) : FnResolve(run)
  \/ \E run \in BagToSet(runs) : FnReject(run)
  \/ \E idx \in BagToSet(timers) : RetryTimer(idx)

SpecProcess == InitQ /\ [][NextProcess]_vars

\* without a processor every job added so far waits, in the order of the adds
C31_Waiting ==
  processor = "none" =>
    /\ runs = EmptyBag
    /\ dispatched = <<>>
    /\ pending = [i \in 1..Len(heap) |-> heap[i].id]
    /\ \A i \in 1..Len(heap) : heap[i].status = "pending" /\ invoked[i] = 0

\* the first process(fn) hands the first min(n, concurrency) jobs to fn, in
\* the order of the adds, and leaves the others pending
C31_First ==
  (processor = "none" /\ processor' # "none" /\ DistinctIds) =>
    LET n == Min(Len(heap), options.concurrency)
    IN /\ dispatched' = [k \in 1..n |-> k]
       /\ pending' = SubSeq(pending, n + 1, Len(pending))
       /\ \A i \in 1..Len(heap) :
            IF i <= n
            THEN heap'[i].status = "processing" /\ invoked'[i] = 1
            ELSE heap'[i].status = "pending" /\ invoked'[i] = 0

\* a later process(fn2) changes the processor and nothing else
C31_Replace ==
  (processor # "none" /\ processor' # processor) =>
    /\ processor' # "none"
    /\ UNCHANGED <<heap, jobs, pending, processing, timers, runs, dispatched, invoked>>

\* no entry pushed by add() is handed to processJob twice
C31_Once ==
  DistinctIds =>
    \A a, b \in 1..Len(dispatched) : a # b => dispatched[a] # dispatched[b]

\* C31: jobs added before any processor is registered stay 'pending' and are
\* not lost; the first process(fn) dispatches them in FIFO order up to the
\* concurrency ceiling; a later process(fn2) replaces the processor without
\* dispatching any job twice (ids pairwise distinct).
C31_LateProcessor ==
  /\ []C31_Waiting
  /\ []C31_Once
  /\ [][C31_First /\ C31_Replace]_vars

\* three jobs were added before process(fn) and two slots exist; the processor
\* was replaced, and every job has been dispatched once and has completed
C31_Witness ==
  /\ processor = "fn2"
  /\ DistinctIds
  /\ Len(heap) = MaxAdds
  /\ options.concurrency < Len(heap)
  /\ dispatched = [k \in 1..Len(heap) |-> k]
  /\ \A i \in 1..Len(heap) : heap[i].status = "completed" /\ invoked[i] = 1

(***************************************************************************)
(* Concurrent callers of withRateLimit()                                   *)
(***************************************************************************)
MaxAdmitErrors == 1

\* withRateLimit has returned or thrown: the execution is over
CallEnds(c) ==
  /\ c.pc \in {"returned", "thrown"}
  /\ calls' = calls (-) SetToBag({c})
  /\ UNCHANGED <<state, now, resets, hist, limRest>>

\* any number of calls, MaxCalls of them at a time; fn resolves, or rejects
\* with status 429
NextAdmit ==
  \/ (BagCardinality(calls) < MaxCalls /\ CallBegin(1))
  \/ \E c \in BagToSet(calls) : CallWake(c)
  \/ \E c \in BagToSet(calls) : FnReturns(c)
  \/ \E c \in BagToSet(calls) : (hist.errors < MaxAdmitErrors /\ FnThrows(c, "status429"))
  \/ \E c \in BagToSet(calls) : CallEnds(c)
  \/ \E r \in resets : ResetFires(r)
  \/ \E t \in WindowInstants \cup Deadlines : t <= MaxNow /\ Advance(t)

SpecAdmit == InitP /\ [][NextAdmit]_vars

\* fn is called in this step
FnCalled ==
  \E c \in BagToSet(calls) \cup {NewCall(1)}, next \in BagToSet(calls') :
    /\ next.invoked = c.invoked + 1
    /\ calls' (-) SetToBag({next}) = calls (-) SetToBag({c})

\* when fn is called the limiter is not limited, fewer than 60 requests are
\* recorded in the window, and the call is recorded in the same step
C32_Admission ==
  FnCalled =>
    /\ ~state.isLimited
    /\ RecordedInWindow < 60
    /\ now' = now
    /\ state'.requestsInWindow = RecordedInWindow + 1

\* C32: for any interleaving of withRateLimit calls, fn is called only when
\* the limiter is not limited and the window holds fewer than 60 requests,
\* check and recordRequest() happen in one step, and requestsInWindow never
\* exceeds 60.
C32_AdmissionAtomic ==
  /\ [](state.requestsInWindow <= 60)
  /\ [][C32_Admission]_vars

\* the window is full: one caller was admitted as the sixtieth and another
\* one polls
C32_Witness ==
  /\ state.requestsInWindow = 60
  /\ now - state.windowStart < WINDOW_MS
  /\ \E c \in BagToSet(calls) : c.pc = "fn"
  /\ \E c \in BagToSet(calls) : c.pc = "poll"

(***************************************************************************)
(* withRateLimit() under persistent throttling                             *)
(***************************************************************************)

\* the rate-limit signals fn() may reject with
RateLimitErrors == {e \in Errors : isRateLimitError(e)}

CallWakes == \E c \in BagToSet(calls) : CallWake(c)
FnThrottled == \E c \in BagToSet(calls), err \in RateLimitErrors : FnThrows(c, err)

\* the clock moves on to the next timer (the calls end, so no ceiling is needed)
NextTimer == \E t \in Deadlines : Advance(t)

\* the calls are made when the module is loaded; every fn() rejects with a
\* rate-limit signal
NextThrottle ==
  \/ \E m \in MaxRetriesOptions :
       now = 0 /\ BagCardinality(calls) < MaxCalls /\ CallBegin(m)
  \/ CallWakes
  \/ FnThrottled
  \/ TimerRuns
  \/ NextTimer

\* timers run when they are due, time passes, and every fn() settles
SpecThrottle ==
  /\ InitP
  /\ [][NextThrottle]_vars
  /\ WF_vars(CallWakes) /\ WF_vars(FnThrottled)
  /\ WF_vars(TimerRuns) /\ WF_vars(NextTimer)

\* fn is invoked at most maxRetries + 1 times, attempt by attempt, and an
\* execution that has ended has invoked it exactly that often and failed
C33_Count ==
  \A c \in BagToSet(calls) :
    /\ c.invoked <= c.maxRetries + 1
    /\ c.pc = "fn" => (c.invoked = c.attempt + 1 /\ c.limited = c.attempt)
    /\ c.pc \in {"retry", "thrown"} => (c.invoked = c.attempt + 1 /\ c.limited = c.invoked)
    /\ c.pc = "thrown" => (c.invoked = c.maxRetries + 1 /\ c.thrown # "none")
    /\ c.pc # "returned"

\* handleRateLimitError() was called once per failed attempt
C33_Handled ==
  hist.errors =
    SumOver(BagToSet(calls),
            [c \in BagToSet(calls) |-> c.limited * CopiesIn(c, calls)])

\* a failed attempt that is not the last one waits 1000 * 2^attempt ms
C33_Wait ==
  \A c \in BagToSet(calls), next \in BagToSet(calls') :
    (CallMoves(c, next) /\ c.pc = "fn") =>
      /\ hist'.errors = hist.errors + 1
      /\ next.limited = c.limited + 1
      /\ IF c.attempt < c.maxRetries
         THEN next.pc = "retry" /\ next.wake = now + 1000 * Pow2(c.attempt)
         ELSE next.pc = "thrown"

AllThrown == \A c \in BagToSet(calls) : c.pc = "thrown"

\* C33: when fn fails with a rate-limit error on every attempt, fn is invoked
\* exactly maxRetries + 1 times (6 by default), the wait before retry number
\* a+1 is 1000 * 2^a ms, handleRateLimitError is called once per failed
\* attempt, and the call ends with an error.
C33_Throttled ==
  /\ []C33_Count
  /\ []C33_Handled
  /\ [][C33_Wait]_vars
  /\ (calls # EmptyBag ~> AllThrown)

\* a call with the default maxRetries has ended after six invocations
C33_Witness ==
  \E c \in BagToSet(calls) :
    /\ c.maxRetries = MAX_RETRIES
    /\ c.pc = "thrown"
    /\ c.invoked = 6
    /\ c.limited = 6
    /\ c.wake = now

(***************************************************************************)
(* One execution per document                                              *)
(***************************************************************************)

\* the processor invocations in flight for document d
QueueRunsOf(d) == {r \in BagToSet(runs) : r.obj # 0 /\ r.doc = d}
InFlightFor(d) ==
  SumOver(QueueRunsOf(d), [r \in QueueRunsOf(d) |-> CopiesIn(r, runs)])

\* C34: at most one processor invocation per document id is in flight at any
\* time, also when a submission names an id twice or two submissions name
\* the same id.
C34_OnePerDocument == \A d \in Ids : InFlightFor(d) <= 1

(***************************************************************************)
(* The retry counter                                                       *)
(***************************************************************************)

\* the counter of every tracked job is within its range and fits its status
C35_Counter ==
  \A i \in Tracked :
    /\ heap[i].retries >= 0
    /\ heap[i].retries <= heap[i].maxRetries
    /\ heap[i].status = "failed" => heap[i].retries = heap[i].maxRetries
    /\ heap[i].status = "completed" => heap[i].retries < heap[i].maxRetries

\* a job that is 'completed' or 'failed' keeps its status
C35_Final ==
  \A i \in 1..Len(heap) :
    heap[i].status \in {"completed", "failed"} => heap'[i].status = heap[i].status

\* C35: after any sequence of add() calls (ids may repeat), every tracked job
\* has 0 <= retries <= maxRetries, a 'failed' job has retries = maxRetries, a
\* 'completed' job has retries < maxRetries, and a job that is 'completed' or
\* 'failed' never changes status again.
C35_RetryCounter == []C35_Counter /\ [][C35_Final]_vars

(***************************************************************************)
(* Overlapping backoffs                                                    *)
(***************************************************************************)

\* C36: while the backoff computed for the most recent rate-limit error has
\* not fully elapsed, isLimited is true and retryAfter is set: the timer of an
\* earlier error does not clear them early.
C36_LatestBackoffHolds ==
  (hist.errors > 0 /\ now < hist.due) => (state.isLimited /\ state.retryAfter # 0)

(***************************************************************************)
(* The results of a small submission                                       *)
(***************************************************************************)

\* the status of the job tracked for the k-th id of req ("none": no job)
JobStatusOf(req, k) ==
  IF jobs[req.ids[k]] = 0 THEN "none" ELSE heap[jobs[req.ids[k]]].status

\* the handler collects its results: success = false only for a 'failed' job
C37_Results(req, next) ==
  (req.pc # "update" /\ next.pc = "update") =>
    \A k \in 1..Len(req.ids) :
      ~next.results[k] => JobStatusOf(req, k) = "failed"

\* the handler marks its BatchJob row COMPLETED: none of its jobs is still
\* 'pending' or 'processing'
C37_Completed(req, next) ==
  (req.batchJob # "COMPLETED" /\ next.batchJob = "COMPLETED") =>
    \A k \in 1..Len(req.ids) :
      JobStatusOf(req, k) \notin {"pending", "processing"}

\* C37: in the response of a submission of at most 10 ids a document is
\* reported success = false only if its job is 'failed', and the BatchJob row
\* is marked COMPLETED only when none of the submission's jobs is 'pending'
\* or 'processing', also after the 60 s ceiling and with other submissions
\* in the queue.
C37_SmallBatchSound ==
  [][\A req \in BagToSet(puts), next \in BagToSet(puts') :
       Moves(req, next) => (C37_Results(req, next) /\ C37_Completed(req, next))]_vars

(***************************************************************************)
(* Jobs and their documents                                                *)
(***************************************************************************)

\* C38: for jobs with distinct ids, a 'completed' job's document is COMPLETED
\* and has an ExtractedData row, a 'failed' job's document, if it exists, is
\* FAILED, and no job is terminal while its document is PREPROCESSING,
\* CLASSIFYING or EXTRACTING.
C38_JobDocument ==
  DistinctIds =>
    \A i \in 1..Len(heap) :
      LET d == heap[i].id
      IN /\ heap[i].status = "completed"
              => (documents[d].status = "COMPLETED" /\ d \in extractedData)
         /\ (heap[i].status = "failed" /\ documents[d].exists)
              => documents[d].status = "FAILED"
         /\ heap[i].status \in {"completed", "failed"}
              => documents[d].status \notin {"PREPROCESSING", "CLASSIFYING", "EXTRACTING"}

(***************************************************************************)
(* When a completion callback is invoked                                   *)
(***************************************************************************)

\* the callback registered for id is invoked in this step
Fires(id) ==
  /\ listeners[id] # 0
  /\ callbacks'[listeners[id]].fired = callbacks[listeners[id]].fired + 1

\* the job tracked for id is re-queued for a retry in this step
Requeued(id) ==
  /\ jobs[id] # 0
  /\ heap[jobs[id]].status = "processing"
  /\ heap'[jobs[id]].status = "pending"

\* C39: a callback registered with onComplete(id, cb) is invoked only when
\* the job has reached 'completed' or 'failed'; when an attempt fails and the
\* job is re-queued, it is neither invoked nor discarded (ids pairwise
\* distinct).
C39_OnlyWhenTerminal ==
  [][DistinctIds =>
       \A id \in Ids :
         /\ Fires(id) => (jobs[id] # 0 /\ heap'[jobs[id]].status \in {"completed", "failed"})
         /\ (Requeued(id) /\ listeners[id] # 0)
              => (~Fires(id) /\ listeners'[id] = listeners[id])]_vars

====
